---- MODULE Spec2Model ----
(***************************************************************************)
(* Model of src/src/mqtt.h (HR20 ESP master, MQTT bridge):                 *)
(*   - Path: the topic codec (compose / parse and its tokenizer helpers)   *)
(*   - MQTTPublisher: reconnect, update (the publication scheduler),       *)
(*     publish_frequent, publish_timers, callback (the inbound dispatcher) *)
(* C strings are sequences of one-character strings; a `const char *` is a *)
(* 1-based position into such a sequence, position Len+1 is the            *)
(* terminating zero byte and position 0 is the null pointer.               *)
(***************************************************************************)
EXTENDS Integers, Sequences, FiniteSets, TLC

\* ------------------------------------------------------------------------
\* Bounds of the model
\* ------------------------------------------------------------------------
\* number of device addresses the scheduler walks (MAX_HR_ADDR of config.h)
MAX_HR_ADDR == 3

\* ------------------------------------------------------------------------
\* enum Topic, enum TimerTopic
\* ------------------------------------------------------------------------
AVG_TMP == 1
BAT == 2
ERR == 3
LOCK == 4
MODE == 5
REQ_TMP == 6
VALVE_WTD == 7
WND == 8
LAST_SEEN == 9
TIMER == 10
\* STATE (a reserved word of TLA+)
T_STATE == 11
INVALID_TOPIC == 255

TIMER_NONE == 0
TIMER_TIME == 1
TIMER_MODE == 2
INVALID_TIMER_TOPIC == 255

\* ------------------------------------------------------------------------
\* string constants
\* ------------------------------------------------------------------------
S_AVG_TMP == <<"a","v","e","r","a","g","e","_","t","e","m","p">>
S_BAT == <<"b","a","t","t","e","r","y">>
S_ERR == <<"e","r","r","o","r">>
S_LOCK == <<"l","o","c","k">>
S_MODE == <<"m","o","d","e">>
S_REQ_TMP == <<"r","e","q","u","e","s","t","e","d","_","t","e","m","p">>
S_VALVE_WTD == <<"v","a","l","v","e","_","w","a","n","t","e","d">>
S_WND == <<"w","i","n","d","o","w">>
S_LAST_SEEN == <<"l","a","s","t","_","s","e","e","n">>
S_STATE == <<"s","t","a","t","e">>
S_TIMER == <<"t","i","m","e","r">>
S_TIMER_LEN == 5
S_TIMER_MODE == <<"m","o","d","e">>
S_TIMER_TIME == <<"t","i","m","e">>
S_SET_MODE == <<"s","e","t">>
S_INVALID == <<"i","n","v","a","l","i","d","!">>

SEPARATOR == "/"
WILDCARD == "#"
\* the zero byte that ends a C string
NUL == "NUL"
\* the null pointer
NULLP == 0

\* the character a pointer p into string s points at
At(s, p) == IF p >= 1 /\ p <= Len(s) THEN s[p] ELSE NUL
\* the C string that starts at p
Rest(s, p) == IF p > Len(s) THEN << >> ELSE SubSeq(s, p, Len(s))

DigitChars == <<"0","1","2","3","4","5","6","7","8","9">>
IsDigit(c) == \E i \in 1..10 : DigitChars[i] = c
DigitVal(c) == (CHOOSE i \in 1..10 : DigitChars[i] = c) - 1

\* StrMaker::operator+=(uint8_t): the decimal numeral of n
Dec(n) ==
    IF n < 10 THEN << DigitChars[n + 1] >>
    ELSE IF n < 100 THEN << DigitChars[(n \div 10) + 1], DigitChars[(n % 10) + 1] >>
    ELSE << DigitChars[(n \div 100) + 1], DigitChars[((n \div 10) % 10) + 1],
            DigitChars[(n % 10) + 1] >>

topic_str(topic) ==
    CASE topic = AVG_TMP -> S_AVG_TMP
      [] topic = BAT -> S_BAT
      [] topic = ERR -> S_ERR
      [] topic = LOCK -> S_LOCK
      [] topic = MODE -> S_MODE
      [] topic = REQ_TMP -> S_REQ_TMP
      [] topic = VALVE_WTD -> S_VALVE_WTD
      [] topic = WND -> S_WND
      [] topic = LAST_SEEN -> S_LAST_SEEN
      [] topic = T_STATE -> S_STATE
      [] topic = TIMER -> S_TIMER
      [] OTHER -> S_INVALID

\* nullptr for anything but TIME and MODE; appending it adds nothing
timer_topic_str(sub) ==
    CASE sub = TIMER_TIME -> S_TIMER_TIME
      [] sub = TIMER_MODE -> S_TIMER_MODE
      [] OTHER -> << >>

\* strncmp(top, S_TIMER, S_TIMER_LEN) == 0
timer_name_matches(s, top) ==
    /\ Len(Rest(s, top)) >= S_TIMER_LEN
    /\ SubSeq(Rest(s, top), 1, S_TIMER_LEN) = S_TIMER

parse_topic(s, top) ==
    LET c == At(s, top)
        r == Rest(s, top)
    IN CASE c = "a" -> IF r = S_AVG_TMP THEN AVG_TMP ELSE INVALID_TOPIC
         [] c = "b" -> IF r = S_BAT THEN BAT ELSE INVALID_TOPIC
         [] c = "e" -> IF r = S_ERR THEN ERR ELSE INVALID_TOPIC
         [] c = "l" -> IF r = S_LOCK THEN LOCK
                       ELSE IF r = S_LAST_SEEN THEN LAST_SEEN ELSE INVALID_TOPIC
         [] c = "m" -> IF r = S_MODE THEN MODE ELSE INVALID_TOPIC
         [] c = "r" -> IF r = S_REQ_TMP THEN REQ_TMP ELSE INVALID_TOPIC
         [] c = "s" -> IF r = S_STATE THEN T_STATE ELSE INVALID_TOPIC
         [] c = "t" -> IF timer_name_matches(s, top) THEN TIMER ELSE INVALID_TOPIC
         [] c = "v" -> IF r = S_VALVE_WTD THEN VALVE_WTD ELSE INVALID_TOPIC
         [] c = "w" -> IF r = S_WND THEN WND ELSE INVALID_TOPIC
         [] OTHER -> INVALID_TOPIC

parse_timer_topic(s, top) ==
    IF top = NULLP THEN INVALID_TIMER_TOPIC
    ELSE IF At(s, top) = "t"
         THEN (IF Rest(s, top) = S_TIMER_TIME THEN TIMER_TIME ELSE INVALID_TIMER_TOPIC)
    ELSE IF At(s, top) = "m"
         THEN (IF Rest(s, top) = S_TIMER_MODE THEN TIMER_MODE ELSE INVALID_TIMER_TOPIC)
    ELSE INVALID_TIMER_TOPIC

\* ------------------------------------------------------------------------
\* struct Path
\* ------------------------------------------------------------------------
\* Path(addr, t, set_mode, st, day, slot)
MkPath(a, t, set_mode, st, d, sl) ==
    [addr |-> a, day |-> d, slot |-> sl, topic |-> t, timer_topic |-> st,
     setter |-> set_mode]

\* Path(): the member initialisers
DefaultPath == MkPath(0, INVALID_TOPIC, FALSE, TIMER_NONE, 0, 0)

valid(p) == p.addr # 0

\* 16 bit: addr | topic << 5 | timer_topic << 9 (addr and topic overlap above 31)
BitOr(a, b, w) ==
    LET RECURSIVE go(_, _, _)
        go(x, y, k) == IF k = 0 THEN 0
                       ELSE (IF (x % 2 = 1) \/ (y % 2 = 1) THEN 1 ELSE 0)
                            + 2 * go(x \div 2, y \div 2, k - 1)
    IN go(a, b, w)

as_uint(p) ==
    BitOr(BitOr(p.addr, (p.topic * 32) % 65536, 16), (p.timer_topic * 512) % 65536, 16)

\* the wildcard of the whole prefix instead of its set branch
compose_prefix_wildcard(pfx) ==
    pfx \o << SEPARATOR >> \o << WILDCARD >>

compose_set_prefix_wildcard(pfx) ==
    pfx \o << SEPARATOR >> \o S_SET_MODE \o << SEPARATOR >> \o << WILDCARD >>

compose(pfx, p) ==
    pfx \o << SEPARATOR >>
        \o (IF p.setter THEN S_SET_MODE \o << SEPARATOR >> ELSE << >>)
        \o Dec(p.addr) \o << SEPARATOR >> \o topic_str(p.topic)
        \o (IF p.topic = TIMER
            THEN << SEPARATOR >> \o Dec(p.day) \o << SEPARATOR >> \o Dec(p.slot)
                 \o << SEPARATOR >> \o timer_topic_str(p.timer_topic)
            ELSE << >>)

\* Token: <<first, second>>, the length is a uint8_t
token(s, p) ==
    LET RECURSIVE scan(_)
        scan(q) == IF At(s, q) = NUL \/ At(s, q) = SEPARATOR THEN q ELSE scan(q + 1)
    IN << p, (scan(p) - p) % 256 >>

skip_separator(s, p, other) ==
    IF p = NULLP THEN NULLP
    ELSE IF At(s, p) # SEPARATOR THEN other
    ELSE IF At(s, p + 1) = NUL THEN NULLP
    ELSE p + 1

skip_token(s, t) == skip_separator(s, t[1] + t[2], NULLP)

\* a is a token of string sa, b a token of string sb
cmp_tokens(sa, a, sb, b) ==
    IF a[2] # b[2] THEN NULLP
    ELSE IF \A i \in 0..(a[2] - 1) : At(sa, a[1] + i) = At(sb, b[1] + i)
         THEN a[1] + a[2] ELSE NULLP

\* returns <<value, new position>>
to_num(s, p, cnt) ==
    LET RECURSIVE loop(_, _, _)
        loop(q, c, res) ==
            IF c = 0 THEN << res, q >>
            ELSE IF At(s, q) = NUL THEN << res, q >>
            ELSE IF IsDigit(At(s, q))
                 THEN loop(q + 1, c - 1, (res * 10 + DigitVal(At(s, q))) % 256)
            ELSE << res, q >>
    IN loop(p, cnt, 0)

skip_prefix(s, pfx) ==
    LET RECURSIVE loop(_, _)
        loop(p, q) ==
            IF p # NULLP /\ q # NULLP
            THEN LET p_t == token(s, p)
                     pfx_t == token(pfx, q)
                 IN IF cmp_tokens(s, p_t, pfx, pfx_t) = NULLP THEN NULLP
                    ELSE loop(skip_token(s, p_t), skip_token(pfx, pfx_t))
            ELSE IF q # NULLP THEN NULLP ELSE p
    IN loop(skip_separator(s, 1, 1), skip_separator(pfx, 1, 1))

\* the timer part of parse, pos points at the topic token
parse_timer(s, pos0, address, set_mode) ==
    LET tt_topic_t == token(s, pos0)
        pos1 == tt_topic_t[1] + tt_topic_t[2]
    IN IF At(s, pos1) # SEPARATOR THEN DefaultPath
       ELSE LET d_t == token(s, pos1 + 1)
                dn == to_num(s, pos1 + 1, d_t[2])
            IN IF At(s, dn[2]) # SEPARATOR THEN DefaultPath
               ELSE LET s_t == token(s, dn[2] + 1)
                        sn == to_num(s, dn[2] + 1, s_t[2])
                    IN IF At(s, sn[2]) # SEPARATOR THEN DefaultPath
                       ELSE LET tt == parse_timer_topic(s, sn[2] + 1)
                            IN IF tt = INVALID_TIMER_TOPIC THEN DefaultPath
                               ELSE MkPath(address, TIMER, set_mode, tt, dn[1], sn[1])

\* the part of parse after the set branch was recognised
parse_address(s, pos, set_mode) ==
    LET addr_t == token(s, pos)
        an == to_num(s, pos, addr_t[2])
    IN IF At(s, an[2]) # SEPARATOR THEN DefaultPath
       ELSE LET top == parse_topic(s, an[2] + 1)
            IN IF top = INVALID_TOPIC THEN DefaultPath
               ELSE IF top = TIMER THEN parse_timer(s, an[2] + 1, an[1], set_mode)
               ELSE MkPath(an[1], top, set_mode, TIMER_NONE, 0, 0)

\* Path::parse with Path::prefix = pfx
parse(pfx, s) ==
    LET pos == skip_prefix(s, pfx)
    IN IF pos = NULLP THEN DefaultPath
       ELSE IF At(s, pos) = NUL THEN DefaultPath
       ELSE LET addr_t == token(s, pos)
            IN IF cmp_tokens(s, addr_t, S_SET_MODE, << 1, Len(S_SET_MODE) >>) # NULLP
               THEN LET pos2 == skip_token(s, addr_t)
                    IN IF pos2 = NULLP THEN DefaultPath
                       ELSE parse_address(s, pos2, TRUE)
               ELSE parse_address(s, pos, FALSE)

\* ------------------------------------------------------------------------
\* The device model and the change mask (master.h, interface of spec.md 3, 6)
\* ------------------------------------------------------------------------
Addrs == 0..(MAX_HR_ADDR - 1)
Days == 0..7
Slots == 0..7

\* bits of a change mask; a mask is the set of its bits
CHANGE_FREQUENT == 0
timer_day_2_change(d) == d + 1
CHANGE_TIMER_MASK == { timer_day_2_change(d) : d \in Days }
\* the 8 bit day mask of a change mask, as the set of its days
change_get_timer_mask(m) == { d \in Days : timer_day_2_change(d) \in m }

TIMER_DAYS == 8
TIMER_SLOTS_PER_DAY == 8
MQTT_RECONNECT_TIME == 2

\* the cached attributes of a device, in the order of the frequent walk:
\* auto_mode, menu_locked, mode_window, temp_avg, bat_avg, temp_wanted,
\* cur_valve_wtd, ctl_err
FreqSlotTopic == << MODE, LOCK, WND, AVG_TMP, BAT, REQ_TMP, VALVE_WTD, ERR >>
CachedTopics == { FreqSlotTopic[i] : i \in 1..Len(FreqSlotTopic) }

\* A device. exists = FALSE is the null pointer master.model[addr] returns for
\* an address without device. The flags of the CachedValue / SyncedValue
\* attributes and of the TimerSlots are kept as sets: valid holds the
\* attributes whose remote_valid() is true, published those whose published()
\* is true; an attribute is named by its topic, a timer slot by << day, slot >>.
AllSlots == Days \X Slots
Device(present, known) ==
    [exists |-> present,
     valid |-> IF known THEN CachedTopics ELSE {},
     published |-> {},
     tvalid |-> IF known THEN AllSlots ELSE {},
     tpublished |-> {},
     requested |-> {}]

\* enum StateMajor
STM_FREQ == 0
STM_TIMER == 1
STM_NEXT_CLIENT == 2

\* ------------------------------------------------------------------------
\* State
\* ------------------------------------------------------------------------
VARIABLES
    prefix,      \* Path::prefix
    mqtt_json,   \* whether the build defines MQTT_JSON
    model,       \* master.model: address -> device
    states,      \* MQTTPublisher::states, one change mask per address
    addr,        \* MQTTPublisher::addr
    state_maj,   \* MQTTPublisher::state_maj
    state_min,   \* MQTTPublisher::state_min
    last_conn,   \* MQTTPublisher::last_conn
    connected,   \* client.connected()
    now,         \* the clock value of the latest tick
    calls,       \* what the latest step did: the handler entered, its
                 \* transport calls, setters and log entries
    cin,         \* the argument of the codec call under examination
    cout,        \* the result of the codec call under examination
    ticks,       \* observer: number of ticks counted
    cleared,     \* observer: how often the frequent bit of an address was cleared
    quiet        \* observer: no change was notified so far

vars == << prefix, mqtt_json, model, states, addr, state_maj, state_min,
           last_conn, connected, now, calls, cin, cout, ticks, cleared, quiet >>

\* the publisher's mutable state as one value, for the handlers below
Cur ==
    [model |-> model, states |-> states, addr |-> addr, state_maj |-> state_maj,
     state_min |-> state_min, last_conn |-> last_conn, connected |-> connected,
     calls |-> << >>]

\* entries of calls
CallUpdate(t) == [op |-> "update", s |-> << >>, code |-> "", n |-> t]
CallPublish(topic, ok) == [op |-> "publish", s |-> topic, code |-> "", n |-> IF ok THEN 1 ELSE 0]
CallConnect(ok) == [op |-> "connect", s |-> << >>, code |-> "", n |-> IF ok THEN 1 ELSE 0]
CallSubscribe(topic) == [op |-> "subscribe", s |-> topic, code |-> "", n |-> 0]
CallLoop == [op |-> "loop", s |-> << >>, code |-> "", n |-> 0]
\* the transport hands an inbound message to callback()
CallCallback(topic) == [op |-> "callback", s |-> topic, code |-> "", n |-> 0]
CallSet(what, a, d, sl) == [op |-> "set", s |-> << a, d, sl >>, code |-> what, n |-> 0]
LogERR(c, arg) == [op |-> "ERR", s |-> << >>, code |-> c, n |-> arg]
LogEVENT(c, arg) == [op |-> "EVENT", s |-> << >>, code |-> c, n |-> arg]

Log(st, e) == [st EXCEPT !.calls = Append(@, e)]

\* ------------------------------------------------------------------------
\* MQTTPublisher
\* ------------------------------------------------------------------------
\* next_client stepping over the neighbour
next_client_skip(st) ==
    [st EXCEPT !.addr = IF (st.addr + 2) % 256 >= MAX_HR_ADDR THEN 0
                        ELSE (st.addr + 2) % 256,
               !.state_maj = STM_FREQ,
               !.state_min = 0]

next_client(st) ==
    [st EXCEPT !.addr = IF (st.addr + 1) % 256 >= MAX_HR_ADDR THEN 0
                        ELSE (st.addr + 1) % 256,
               !.state_maj = STM_FREQ,
               !.state_min = 0]

\* next_major that leaves the step to the next address to the next tick
next_major_later(st) == [st EXCEPT !.state_min = 0, !.state_maj = (@ + 1) % 256]

\* next_major that leaves the address at once
next_major_leave(st) == next_client([st EXCEPT !.state_min = 0])

next_major(st) ==
    LET s1 == [st EXCEPT !.state_min = 0, !.state_maj = (st.state_maj + 1) % 256]
    IN IF s1.state_maj >= STM_NEXT_CLIENT THEN next_client(s1) ELSE s1

\* publish that marks the value published only when the transport took it
publish_cached_if_sent(st, p, t, ok) ==
    LET hr == st.model[st.addr]
    IN IF t \in hr.published \/ t \notin hr.valid THEN st
       ELSE LET s1 == Log(st, CallPublish(compose(prefix, p), ok))
                s2 == Log(s1, IF ok THEN LogEVENT("MQTT_PUBLISH", as_uint(p))
                                    ELSE LogERR("MQTT_CANT_PUBLISH", as_uint(p)))
            IN IF ok THEN [s2 EXCEPT !.model[st.addr].published = @ \cup {t}] ELSE s2

\* publish(const Str &path, CachedValue &val, hint) for attribute t of the
\* current device; ok is what client.publish returns
publish_cached(st, p, t, ok) ==
    LET hr == st.model[st.addr]
    IN IF t \in hr.published \/ t \notin hr.valid THEN st
       ELSE LET s1 == Log(st, CallPublish(compose(prefix, p), ok))
                s2 == Log(s1, IF ok THEN LogEVENT("MQTT_PUBLISH", as_uint(p))
                                    ELSE LogERR("MQTT_CANT_PUBLISH", as_uint(p)))
            IN [s2 EXCEPT !.model[st.addr].published = @ \cup {t}]

\* publish(const Path &p, const Str &val)
publish_str(st, p, ok) ==
    LET s1 == Log(st, CallPublish(compose(prefix, p), ok))
    IN Log(s1, IF ok THEN LogEVENT("MQTT_PUBLISH", as_uint(p))
                     ELSE LogERR("MQTT_CANT_PUBLISH", as_uint(p)))

\* publish_timer_slot that marks the slot published only when both messages
\* were taken
publish_timer_slot_if_sent(st, p, ok, ok1) ==
    LET mode_path == [p EXCEPT !.timer_topic = TIMER_MODE]
        time_path == [p EXCEPT !.timer_topic = TIMER_TIME]
        hr == st.model[st.addr]
        val == << p.day, p.slot >>
    IN IF val \notin hr.tpublished /\ val \in hr.tvalid
       THEN LET s1 == Log(st, CallPublish(compose(prefix, mode_path), ok))
                s2 == Log(s1, CallPublish(compose(prefix, time_path), ok1))
                s3 == Log(s2, IF ~ok \/ ~ok1 THEN LogERR("MQTT_CANT_PUBLISH", as_uint(p))
                                    ELSE LogEVENT("MQTT_PUBLISH", as_uint(p)))
            IN IF ok /\ ok1 THEN [s3 EXCEPT !.model[st.addr].tpublished = @ \cup {val}]
               ELSE s3
       ELSE st

\* publish_timer_slot that gives the slot up when the mode message was not
\* taken
publish_timer_slot_mode_first(st, p, ok, ok1) ==
    LET mode_path == [p EXCEPT !.timer_topic = TIMER_MODE]
        time_path == [p EXCEPT !.timer_topic = TIMER_TIME]
        hr == st.model[st.addr]
        val == << p.day, p.slot >>
    IN IF val \notin hr.tpublished /\ val \in hr.tvalid
       THEN LET s1 == Log(st, CallPublish(compose(prefix, mode_path), ok))
                s2 == IF ok THEN Log(s1, CallPublish(compose(prefix, time_path), ok1))
                      ELSE s1
                s3 == Log(s2, IF ~ok \/ ~ok1 THEN LogERR("MQTT_CANT_PUBLISH", as_uint(p))
                                    ELSE LogEVENT("MQTT_PUBLISH", as_uint(p)))
            IN [s3 EXCEPT !.model[st.addr].tpublished = @ \cup {val}]
       ELSE st

publish_timer_slot(st, p, ok, ok1) ==
    LET mode_path == [p EXCEPT !.timer_topic = TIMER_MODE]
        time_path == [p EXCEPT !.timer_topic = TIMER_TIME]
        hr == st.model[st.addr]
        val == << p.day, p.slot >>
    IN IF val \notin hr.tpublished /\ val \in hr.tvalid
       THEN LET s1 == Log(st, CallPublish(compose(prefix, mode_path), ok))
                s2 == Log(s1, CallPublish(compose(prefix, time_path), ok1))
                s3 == Log(s2, IF ~ok \/ ~ok1 THEN LogERR("MQTT_CANT_PUBLISH", as_uint(p))
                                    ELSE LogEVENT("MQTT_PUBLISH", as_uint(p)))
            IN [s3 EXCEPT !.model[st.addr].tpublished = @ \cup {val}]
       ELSE st

\* number of slots of the frequent walk in this build
NumFreqSlots == IF mqtt_json THEN 10 ELSE 9

publish_frequent(st, ok) ==
    IF CHANGE_FREQUENT \notin st.states[st.addr] THEN next_major(st)
    ELSE IF ~st.model[st.addr].exists THEN Log(st, LogERR("MQTT_INVALID_CLIENT", 0))
    ELSE LET p == MkPath(st.addr, INVALID_TOPIC, FALSE, TIMER_NONE, 0, 0)
             inc(s) == [s EXCEPT !.state_min = (st.state_min + 1) % 256]
         IN IF st.state_min <= 7
            THEN LET t == FreqSlotTopic[st.state_min + 1]
                 IN inc(publish_cached(st, [p EXCEPT !.topic = t], t, ok))
            ELSE IF st.state_min = 8
            THEN inc(publish_str(st, [p EXCEPT !.topic = LAST_SEEN], ok))
            ELSE IF st.state_min = 9 /\ mqtt_json
            THEN inc(publish_str(st, [p EXCEPT !.topic = T_STATE], ok))
            ELSE next_major([st EXCEPT !.states[st.addr] = @ \ {CHANGE_FREQUENT}])

publish_timers(st, ok, ok1) ==
    IF ~st.model[st.addr].exists THEN Log(st, LogERR("MQTT_INVALID_CLIENT", 0))
    ELSE IF st.states[st.addr] \cap CHANGE_TIMER_MASK = {} THEN next_major(st)
    ELSE LET day == st.state_min \div 8
             slot == st.state_min % 8
             s1 == [st EXCEPT !.state_min = (st.state_min + 1) % 256]
             mask == change_get_timer_mask(st.states[st.addr])
         IN IF day >= 8 THEN next_major(s1)
            ELSE IF day \notin mask THEN s1
            ELSE LET s2 == IF slot = 7
                           THEN [s1 EXCEPT !.states[st.addr] = @ \ {timer_day_2_change(day)}]
                           ELSE s1
                 IN publish_timer_slot(s2, MkPath(st.addr, TIMER, FALSE, TIMER_NONE, day, slot),
                                       ok, ok1)

\* reconnect that records the time of a successful attempt only
reconnect_on_success(st, t, cok) ==
    IF ~st.connected
    THEN IF (t - st.last_conn) < MQTT_RECONNECT_TIME THEN << FALSE, st >>
         ELSE LET s1 == Log(st, CallConnect(cok))
              IN IF ~cok THEN << FALSE, Log(s1, LogERR("MQTT_CANNOT_CONNECT", 0)) >>
                 ELSE << TRUE,
                         Log(Log([s1 EXCEPT !.connected = TRUE, !.last_conn = t],
                                 LogEVENT("MQTT_CONN", 0)),
                             CallSubscribe(compose_set_prefix_wildcard(prefix))) >>
    ELSE << TRUE, st >>

\* reconnect without the back-off interval
reconnect_at_once(st, t, cok) ==
    IF ~st.connected
    THEN LET s1 == Log([st EXCEPT !.last_conn = t], CallConnect(cok))
         IN IF ~cok THEN << FALSE, Log(s1, LogERR("MQTT_CANNOT_CONNECT", 0)) >>
            ELSE << TRUE,
                    Log(Log([s1 EXCEPT !.connected = TRUE], LogEVENT("MQTT_CONN", 0)),
                        CallSubscribe(compose_set_prefix_wildcard(prefix))) >>
    ELSE << TRUE, st >>

\* returns << ready, state >>; cok is what client.connect returns
reconnect(st, t, cok) ==
    IF ~st.connected
    THEN IF (t - st.last_conn) < MQTT_RECONNECT_TIME THEN << FALSE, st >>
         ELSE LET s1 == Log([st EXCEPT !.last_conn = t], CallConnect(cok))
              IN IF ~cok THEN << FALSE, Log(s1, LogERR("MQTT_CANNOT_CONNECT", 0)) >>
                 ELSE << TRUE,
                         Log(Log([s1 EXCEPT !.connected = TRUE], LogEVENT("MQTT_CONN", 0)),
                             CallSubscribe(compose_set_prefix_wildcard(prefix))) >>
    ELSE << TRUE, st >>

\* the timer case of callback; returns << ok, state >>
callback_timer(st, p, sok) ==
    IF p.day >= TIMER_DAYS
    THEN << TRUE, Log(st, LogERR("MQTT_INVALID_TIMER_TOPIC", BitOr(p.day, 16, 8))) >>
    ELSE IF p.slot >= TIMER_SLOTS_PER_DAY
    THEN << TRUE, Log(st, LogERR("MQTT_INVALID_TIMER_TOPIC", BitOr(p.slot, 32, 8))) >>
    ELSE IF p.timer_topic = TIMER_MODE
    THEN << sok, Log(st, CallSet("timer_mode", p.addr, p.day, p.slot)) >>
    ELSE IF p.timer_topic = TIMER_TIME
    THEN << sok, Log(st, CallSet("timer_time", p.addr, p.day, p.slot)) >>
    ELSE << TRUE, Log(st, LogERR("MQTT_INVALID_TIMER_TOPIC", 0)) >>

\* a setter that accepted the value changes the requested value of the device
Requested(st, ok) ==
    IF ok /\ Len(st.calls) > 0 /\ st.calls[Len(st.calls)].op = "set"
    THEN LET c == st.calls[Len(st.calls)]
         IN [st EXCEPT !.model[c.s[1]].requested = @ \cup {<< c.code, c.s[2], c.s[3] >>}]
    ELSE st

\* callback without the test of the set branch
callback_path_any_branch(st, p, sok) ==
    IF ~valid(p) THEN Log(st, LogERR("MQTT_INVALID_TOPIC", 0))
    ELSE IF p.addr \notin Addrs \/ ~st.model[p.addr].exists
         THEN Log(st, LogERR("MQTT_CALLBACK_BAD_ADDR", 0))
    ELSE IF p.topic \notin {REQ_TMP, MODE, LOCK, TIMER}
         THEN Log(st, LogERR("MQTT_INVALID_TOPIC", 0))
    ELSE LET r == CASE p.topic = REQ_TMP ->
                          << sok, Log(st, CallSet("temp_wanted", p.addr, 0, 0)) >>
                    [] p.topic = MODE ->
                          << sok, Log(st, CallSet("auto_mode", p.addr, 0, 0)) >>
                    [] p.topic = LOCK ->
                          << sok, Log(st, CallSet("menu_locked", p.addr, 0, 0)) >>
                    [] OTHER -> callback_timer(st, p, sok)
             s1 == Log(Requested(r[2], r[1]), LogEVENT("MQTT_CALLBACK", as_uint(p)))
         IN IF ~r[1] THEN Log(s1, LogERR("MQTT_INVALID_TOPIC_VALUE", as_uint(p)))
            ELSE s1

\* callback, from `if (!p.valid())` on, for the parsed Path p; sok is what
\* the setter returns
callback_path(st, p, sok) ==
    IF ~valid(p) THEN Log(st, LogERR("MQTT_INVALID_TOPIC", 0))
    ELSE IF ~p.setter THEN Log(st, LogERR("MQTT_INVALID_TOPIC", 0))
    ELSE IF p.addr \notin Addrs \/ ~st.model[p.addr].exists
         THEN Log(st, LogERR("MQTT_CALLBACK_BAD_ADDR", 0))
    ELSE IF p.topic \notin {REQ_TMP, MODE, LOCK, TIMER}
         THEN Log(st, LogERR("MQTT_INVALID_TOPIC", 0))
    ELSE LET r == CASE p.topic = REQ_TMP ->
                          << sok, Log(st, CallSet("temp_wanted", p.addr, 0, 0)) >>
                    [] p.topic = MODE ->
                          << sok, Log(st, CallSet("auto_mode", p.addr, 0, 0)) >>
                    [] p.topic = LOCK ->
                          << sok, Log(st, CallSet("menu_locked", p.addr, 0, 0)) >>
                    [] OTHER -> callback_timer(st, p, sok)
             s1 == Log(Requested(r[2], r[1]), LogEVENT("MQTT_CALLBACK", as_uint(p)))
         IN IF ~r[1] THEN Log(s1, LogERR("MQTT_INVALID_TOPIC_VALUE", as_uint(p)))
            ELSE s1

\* callback(topic, payload, length)
callback(st, topic, sok) == callback_path(st, parse(prefix, topic), sok)

\* the transport delivers the pending inbound message, if any, from loop()
NoMsg == << >>
client_loop(st, msg, sok) ==
    LET s1 == Log(st, CallLoop)
    IN IF msg = NoMsg THEN s1 ELSE callback(Log(s1, CallCallback(msg)), msg, sok)

\* update without the test of the change mask
update_any_mask(st, t, cok, msg, sok, ok, ok1) ==
    LET r == reconnect(Log(st, CallUpdate(t)), t, cok)
    IN IF ~r[1] THEN r[2]
       ELSE LET s1 == client_loop(r[2], msg, sok)
            IN IF s1.state_maj = STM_FREQ THEN publish_frequent(s1, ok)
               ELSE IF s1.state_maj = STM_TIMER THEN publish_timers(s1, ok, ok1)
               ELSE next_client(s1)

update(st, t, cok, msg, sok, ok, ok1) ==
    LET r == reconnect(Log(st, CallUpdate(t)), t, cok)
    IN IF ~r[1] THEN r[2]
       ELSE LET s1 == client_loop(r[2], msg, sok)
            IN IF s1.states[s1.addr] = {} THEN next_client(s1)
               ELSE IF s1.state_maj = STM_FREQ THEN publish_frequent(s1, ok)
               ELSE IF s1.state_maj = STM_TIMER THEN publish_timers(s1, ok, ok1)
               ELSE next_client(s1)

\* a change callback that stores the reported mask
change_callback_assign(st, a, mask) == [st EXCEPT !.states[a] = mask]

\* the change callback registered in begin(): states[addr] |= mask
change_callback(st, a, mask) == [st EXCEPT !.states[a] = @ \cup mask]

\* ------------------------------------------------------------------------
\* Actions
\* ------------------------------------------------------------------------
Store(st) ==
    /\ model' = st.model
    /\ states' = st.states
    /\ addr' = st.addr
    /\ state_maj' = st.state_maj
    /\ state_min' = st.state_min
    /\ last_conn' = st.last_conn
    /\ connected' = st.connected
    /\ calls' = st.calls

Observers == << ticks, cleared, quiet >>

\* one call of update(now) by the main loop, at a time of Clock; ConnOks are
\* the results client.connect can give, Msgs the messages loop() can deliver
\* (an input the tick cannot read is not enumerated)
TickWith(Clock, ConnOks, Msgs) ==
    \E t \in Clock, msg \in Msgs :
      \E cok \in (IF connected THEN {TRUE} ELSE ConnOks),
         sok \in (IF msg = NoMsg THEN {TRUE} ELSE BOOLEAN),
         ok \in (IF states[addr] = {} THEN {TRUE} ELSE BOOLEAN),
         ok1 \in (IF state_maj = STM_TIMER THEN BOOLEAN ELSE {TRUE}) :
        /\ t >= now
        /\ now' = t
        /\ \E st \in { update(Cur, t, cok, msg, sok, ok, ok1) } : Store(st)
        /\ UNCHANGED << prefix, mqtt_json, cin, cout >>

\* the device protocol received a new value of cached attribute t of device a
\* (LAST_SEEN: only the time of the last contact moved) and reports the change
ChangeFrequent(a, t) ==
    /\ LET s1 == IF model[a].exists /\ t \in CachedTopics
                 THEN [Cur EXCEPT !.model[a].valid = @ \cup {t},
                                  !.model[a].published = @ \ {t}]
                 ELSE Cur
       IN Store(change_callback(s1, a, {CHANGE_FREQUENT}))
    /\ UNCHANGED << prefix, mqtt_json, now, cin, cout >>

\* the device protocol received a new timer slot of device a
ChangeTimer(a, d, sl) ==
    /\ LET s1 == IF model[a].exists
                 THEN [Cur EXCEPT !.model[a].tvalid = @ \cup {<< d, sl >>},
                                  !.model[a].tpublished = @ \ {<< d, sl >>}]
                 ELSE Cur
       IN Store(change_callback(s1, a, {timer_day_2_change(d)}))
    /\ UNCHANGED << prefix, mqtt_json, now, cin, cout >>

\* the transport lost its connection
ConnectionLost ==
    /\ connected
    /\ connected' = FALSE
    /\ calls' = << >>
    /\ UNCHANGED << prefix, mqtt_json, model, states, addr, state_maj, state_min,
                    last_conn, now, cin, cout, ticks, cleared, quiet >>

\* ------------------------------------------------------------------------
\* Specification of the publisher
\* ------------------------------------------------------------------------
PFX_HR == << "h", "r" >>
T0 == MQTT_RECONNECT_TIME

NoCodecIn == [kind |-> "none", p |-> DefaultPath, t |-> << >>]
NoCodecOut ==
    [op |-> "none", s |-> << >>, p |-> DefaultPath, lead |-> DefaultPath,
     trail |-> DefaultPath, slash |-> DefaultPath]

\* the state after construction and begin(). The device model is the
\* collaborator's: the addresses of NoDev hold no device, the attributes of
\* the others are either all not yet received or all received.
InitWith(Prefixes, NoDev) ==
    /\ prefix \in Prefixes
    /\ mqtt_json \in BOOLEAN
    /\ \E known \in BOOLEAN :
          model = [a \in Addrs |-> Device(a \notin NoDev, known)]
    /\ states = [a \in Addrs |-> {}]
    /\ addr = 0
    /\ state_maj = STM_FREQ
    /\ state_min = 0
    /\ last_conn = 0
    /\ connected = FALSE
    /\ now = 0
    /\ calls = << >>
    /\ cout = NoCodecOut
    /\ ticks = 0
    /\ cleared = [a \in Addrs |-> 0]
    /\ quiet = TRUE

Init == InitWith({PFX_HR}, {0}) /\ cin = NoCodecIn

\* change notifications: the last contact of every address, and for device 1
\* a new mode and a new timer slot
FreqChanges == { << a, LAST_SEEN >> : a \in Addrs } \cup { << 1, MODE >> }
TimerChanges == { << 1, 1, 2 >> }

Tick == TickWith({0, T0}, BOOLEAN, {NoMsg}) /\ UNCHANGED Observers

Change ==
    /\ \/ \E c \in FreqChanges : ChangeFrequent(c[1], c[2])
       \/ \E c \in TimerChanges : ChangeTimer(c[1], c[2], c[3])
    /\ UNCHANGED Observers

Next == Tick \/ Change \/ ConnectionLost

Spec == Init /\ [][Next]_vars

\* ------------------------------------------------------------------------
\* The publisher with ticks that keep arriving and a transport that connects
\* and stays connected
\* ------------------------------------------------------------------------
TickLive == TickWith({T0}, {TRUE}, {NoMsg}) /\ UNCHANGED Observers

NextLive == TickLive \/ Change

SpecLive == Init /\ [][NextLive]_vars /\ WF_vars(TickLive)

\* ------------------------------------------------------------------------
\* The connection manager: a clock that runs on to MaxTime, a transport that
\* accepts or refuses the connection and loses it, and device 1 reporting a
\* new mode
\* ------------------------------------------------------------------------
MaxTime == 5

TickConn == TickWith(0..MaxTime, BOOLEAN, {NoMsg}) /\ UNCHANGED Observers

ChangeConn == ChangeFrequent(1, MODE) /\ UNCHANGED Observers

NextConn == TickConn \/ ChangeConn \/ ConnectionLost

SpecConn == Init /\ [][NextConn]_vars

\* ------------------------------------------------------------------------
\* The publisher with device 1 alone reporting changes: a new mode and a new
\* timer slot, at any time
\* ------------------------------------------------------------------------
ChangeOne ==
    /\ \/ ChangeFrequent(1, MODE)
       \/ ChangeTimer(1, 1, 2)
    /\ UNCHANGED Observers

NextOne == Tick \/ ChangeOne \/ ConnectionLost

SpecOne == Init /\ [][NextOne]_vars

\* ------------------------------------------------------------------------
\* The timer walk: address 2 holds no device; addresses 1 and 2 report
\* changed timer slots of the first and the last day, at any time
\* ------------------------------------------------------------------------
InitTimers == InitWith({PFX_HR}, {2}) /\ cin = NoCodecIn

TimerDayChanges == { << a, d >> : a \in {1, 2}, d \in {0, 7} }

ChangeTimers ==
    /\ \E c \in TimerDayChanges : ChangeTimer(c[1], c[2], 0)
    /\ UNCHANGED Observers

NextTimers == Tick \/ ChangeTimers

SpecTimers == InitTimers /\ [][NextTimers]_vars

\* ------------------------------------------------------------------------
\* The frequent walk over a fleet in which every address holds a device,
\* from the moment every address has its frequent bit pending; the ticks
\* and the clearings of the frequent bit are counted
\* ------------------------------------------------------------------------
MaxTicks == 80

InitWalk ==
    /\ prefix = PFX_HR
    /\ mqtt_json \in BOOLEAN
    /\ \E known \in BOOLEAN :
          model = [a \in Addrs |-> Device(TRUE, known)]
    /\ states = [a \in Addrs |-> {CHANGE_FREQUENT}]
    /\ addr = 0
    /\ state_maj = STM_FREQ
    /\ state_min = 0
    /\ last_conn = T0
    /\ connected = TRUE
    /\ now = T0
    /\ calls = << >>
    /\ cin = NoCodecIn
    /\ cout = NoCodecOut
    /\ ticks = 0
    /\ cleared = [a \in Addrs |-> 0]
    /\ quiet = TRUE

TickCounted ==
    /\ ticks < MaxTicks
    /\ TickWith({T0}, {TRUE}, {NoMsg})
    /\ ticks' = ticks + 1
    /\ cleared' = [a \in Addrs |->
                     IF CHANGE_FREQUENT \in states[a] /\ CHANGE_FREQUENT \notin states'[a]
                     THEN cleared[a] + 1 ELSE cleared[a]]
    /\ quiet' = quiet

\* a further contact of a device whose values did not change
Recontact ==
    /\ \E a \in Addrs : ChangeFrequent(a, LAST_SEEN)
    /\ quiet' = FALSE
    /\ UNCHANGED << ticks, cleared >>

NextWalk == TickCounted \/ Recontact

SpecWalk == InitWalk /\ [][NextWalk]_vars

\* ------------------------------------------------------------------------
\* The dispatcher: ticks whose poll delivers inbound messages
\* ------------------------------------------------------------------------
SetTopic(a, t) == compose(PFX_HR, MkPath(a, t, TRUE, TIMER_NONE, 0, 0))
SetTimer(a, d, sl, tt) == compose(PFX_HR, MkPath(a, TIMER, TRUE, tt, d, sl))
TimerCoords ==
    { << 0, 0 >>, << 7, 7 >>, << 8, 0 >>, << 0, 8 >>, << 8, 8 >>, << 16, 0 >>,
      << 0, 16 >>, << 32, 0 >>, << 0, 48 >>, << 255, 0 >>, << 0, 255 >> }
DispatchMsgs ==
    { NoMsg, SetTopic(1, MODE), SetTopic(1, BAT), SetTopic(0, MODE), SetTopic(2, REQ_TMP),
      SetTopic(5, LOCK), compose(PFX_HR, MkPath(1, LOCK, FALSE, TIMER_NONE, 0, 0)),
      << "x" >>, SetTimer(2, 0, 9, TIMER_TIME) }
    \cup { SetTimer(1, c[1], c[2], TIMER_MODE) : c \in TimerCoords }

TickDispatch == TickWith({T0}, BOOLEAN, DispatchMsgs) /\ UNCHANGED Observers

NextDispatch == TickDispatch \/ ConnectionLost

SpecDispatch == Init /\ [][NextDispatch]_vars

\* ------------------------------------------------------------------------
\* The publisher with everything that reaches it: ticks at any time whose
\* poll may deliver an inbound message, changes reported by device 1, and
\* the loss of the connection
\* ------------------------------------------------------------------------
InboundMsgs == { NoMsg, SetTopic(1, MODE), SetTopic(1, BAT) }

TickAll == TickWith({0, T0}, BOOLEAN, InboundMsgs) /\ UNCHANGED Observers

NextAll == TickAll \/ ChangeOne \/ ConnectionLost

SpecAll == Init /\ [][NextAll]_vars

\* ------------------------------------------------------------------------
\* Specification of the codec: Path::compose and Path::parse applied to
\* arguments drawn from bounded sets
\* ------------------------------------------------------------------------
PFX_AB == << "a", "/", "b" >>
\* prefixes without leading or trailing separator
BasePrefixes == { PFX_HR, PFX_AB, << >> }
\* the prefixes Path::begin is called with
ConfiguredPrefixes ==
    BasePrefixes \cup { << SEPARATOR >> \o P : P \in BasePrefixes }
                 \cup { P \o << SEPARATOR >> : P \in BasePrefixes }

NonTimerTopics ==
    { AVG_TMP, BAT, ERR, LOCK, MODE, REQ_TMP, VALVE_WTD, WND, LAST_SEEN, T_STATE }

\* every valid Path
ValidPaths ==
    { MkPath(a, t, st, TIMER_NONE, 0, 0) : a \in 1..31, t \in NonTimerTopics, st \in BOOLEAN }
    \cup { MkPath(a, TIMER, st[1], st[2], d, sl) :
             a \in 1..31, st \in BOOLEAN \X { TIMER_TIME, TIMER_MODE }, d \in Days, sl \in Slots }

\* topic strings: the topics of some paths, each with one edit (a character
\* removed, put in or replaced, or the string cut short)
SamplePaths ==
    { MkPath(a, t, st, TIMER_NONE, 0, 0) : a \in { 1, 25 }, t \in NonTimerTopics, st \in BOOLEAN }
    \cup { MkPath(a, TIMER, st[1], st[2], ds[1], ds[2]) :
             a \in { 1, 25 }, st \in BOOLEAN \X { TIMER_TIME, TIMER_MODE },
             ds \in { << 0, 0 >>, << 7, 7 >> } }
EditChars == { "/", "x", "1", "7" }
Cut(s, i) == SubSeq(s, 1, i)
Remove(s, i) == SubSeq(s, 1, i - 1) \o SubSeq(s, i + 1, Len(s))
PutIn(s, i, c) == SubSeq(s, 1, i) \o << c >> \o SubSeq(s, i + 1, Len(s))
Replace(s, i, c) == [s EXCEPT ![i] = c]
Edits(s) ==
    { s } \cup { Cut(s, i) : i \in 0..Len(s) }
          \cup { Remove(s, i) : i \in 1..Len(s) }
          \cup { PutIn(s, i, c) : i \in 0..Len(s), c \in EditChars }
          \cup { Replace(s, i, c) : i \in 1..Len(s), c \in EditChars }
TopicStrings(pfx) == UNION { Edits(compose(pfx, q)) : q \in SamplePaths }

InitCodec ==
    /\ InitWith(ConfiguredPrefixes, {0})
    /\ mqtt_json
    /\ model[1].valid = {}
    /\ \/ \E q \in ValidPaths : cin = [kind |-> "path", p |-> q, t |-> << >>]
       \/ /\ prefix \in BasePrefixes
          /\ \E str \in TopicStrings(prefix) :
                cin = [kind |-> "topic", p |-> DefaultPath, t |-> str]

Frame == UNCHANGED << prefix, mqtt_json, model, states, addr, state_maj, state_min,
                      last_conn, connected, now, calls, cin, ticks, cleared, quiet >>

\* p.compose(buffer)
DoCompose ==
    /\ cin.kind = "path"
    /\ cout.op = "none"
    /\ cout' = [cout EXCEPT !.op = "compose", !.s = compose(prefix, cin.p)]
    /\ Frame

\* Path::parse of the composed topic
DoParseComposed ==
    /\ cout.op = "compose"
    /\ cout' = [cout EXCEPT !.op = "roundtrip", !.p = parse(prefix, cout.s)]
    /\ Frame

\* Path::parse(t), and the same call with a separator put before the
\* configured prefix, after it, and before t
DoParse ==
    /\ cin.kind = "topic"
    /\ cout.op = "none"
    /\ cout' = [cout EXCEPT !.op = "parse",
                            !.p = parse(prefix, cin.t),
                            !.lead = parse(<< SEPARATOR >> \o prefix, cin.t),
                            !.trail = parse(prefix \o << SEPARATOR >>, cin.t),
                            !.slash = parse(prefix, << SEPARATOR >> \o cin.t)]
    /\ Frame

NextCodec == DoCompose \/ DoParseComposed \/ DoParse

SpecCodec == InitCodec /\ [][NextCodec]_vars

\* ------------------------------------------------------------------------
\* The topic grammar of spec.md 6, stated without the parser:
\*   <prefix>/[set/]<address>/<topic>[/<day>/<slot>/<mode|time>]
\* ------------------------------------------------------------------------
Split(s) ==
    LET RECURSIVE go(_, _, _)
        go(i, cur, acc) ==
            IF i > Len(s) THEN Append(acc, cur)
            ELSE IF s[i] = SEPARATOR THEN go(i + 1, << >>, Append(acc, cur))
            ELSE go(i + 1, Append(cur, s[i]), acc)
    IN go(1, << >>, << >>)
StripLead(s) == IF Len(s) > 0 /\ s[1] = SEPARATOR THEN Tail(s) ELSE s
StripTrail(s) == IF Len(s) > 0 /\ s[Len(s)] = SEPARATOR THEN SubSeq(s, 1, Len(s) - 1) ELSE s
IsNumeral(tok) == Len(tok) > 0 /\ \A i \in 1..Len(tok) : IsDigit(tok[i])
NonTimerNames == { topic_str(t) : t \in NonTimerTopics }
\* the suffix grammar with the name of the timer topic and the day and slot
\* tokens judged by TimerName and Numeral
SuffixMatches(R, TimerName(_), Numeral(_)) ==
    /\ Len(R) >= 2
    /\ IsNumeral(R[1])
    /\ \/ Len(R) = 2 /\ R[2] \in NonTimerNames
       \/ /\ Len(R) = 5
          /\ TimerName(R[2])
          /\ Numeral(R[3])
          /\ Numeral(R[4])
          /\ R[5] \in { S_TIMER_MODE, S_TIMER_TIME }
GrammarWith(pfx, t, TimerName(_), Numeral(_)) ==
    LET PT == Split(StripTrail(StripLead(pfx)))
        TT == Split(StripLead(t))
        n == Len(PT)
    IN /\ Len(TT) >= n + 2
       /\ SubSeq(TT, 1, n) = PT
       /\ LET R0 == SubSeq(TT, n + 1, Len(TT))
          IN SuffixMatches(IF R0[1] = S_SET_MODE THEN Tail(R0) ELSE R0, TimerName, Numeral)
IsTimerName(tok) == tok = S_TIMER
MatchesGrammar(pfx, t) == GrammarWith(pfx, t, IsTimerName, IsNumeral)
\* what the parser takes for the timer topic and for a day or slot numeral
StartsWithTimer(tok) == Len(tok) >= S_TIMER_LEN /\ SubSeq(tok, 1, S_TIMER_LEN) = S_TIMER
IsNumeralOrEmpty(tok) == \A i \in 1..Len(tok) : IsDigit(tok[i])
MatchesLooseGrammar(pfx, t) == GrammarWith(pfx, t, StartsWithTimer, IsNumeralOrEmpty)

\* ------------------------------------------------------------------------
\* What a step did, read from calls: a step with Ticked(calls') is a call of
\* update(), and one with Polled(calls') a call in which reconnect reported
\* ready (update polls the transport exactly then).
\* ------------------------------------------------------------------------
Ticked(c) == c # << >> /\ c[1].op = "update"
Publishes(c) == SelectSeq(c, LAMBDA e : e.op = "publish")
NumPublishes(c) == Len(Publishes(c))
Polled(c) == \E i \in 1..Len(c) : c[i].op = "loop"
Cursor == << addr, state_maj, state_min >>
AllPublished(a) ==
    /\ model[a].exists
    /\ model[a].valid = CachedTopics
    /\ model[a].published = CachedTopics

\* ------------------------------------------------------------------------
\* Properties
\* ------------------------------------------------------------------------

\* C1: in every tick in which the transport is ready and the current address
\* has a non-empty change mask, there is at most one publish attempt when
\* major is FREQUENT and at most two when major is TIMER, and the cursor after
\* the tick differs from the cursor before it (for every address, with or
\* without device).
BoundedWork ==
    [][(Polled(calls') /\ states[addr] # {})
         => /\ NumPublishes(calls') <= (IF state_maj = STM_FREQ THEN 1 ELSE 2)
            /\ Cursor' # Cursor]_vars

\* the same for the addresses that hold a device
BoundedWorkOfDevices ==
    [][(Polled(calls') /\ states[addr] # {} /\ model[addr].exists)
         => /\ NumPublishes(calls') <= (IF state_maj = STM_FREQ THEN 1 ELSE 2)
            /\ Cursor' # Cursor]_vars

\* C2: from the cursor at (0, FREQUENT, 0), connected, with every address
\* holding a device ("all N devices") and having only its frequent bit
\* pending, and no further change notified, after
\* MAX_HR_ADDR cycles of ticks (one cycle: every frequent slot, the tick that
\* clears the bit and the tick that leaves the address) every address has had
\* its frequent bit cleared exactly once, and none is ever cleared twice.
CycleLen == NumFreqSlots + 2
Fairness ==
    /\ (quiet /\ ticks = MAX_HR_ADDR * CycleLen) => \A a \in Addrs : cleared[a] = 1
    /\ quiet => \A a \in Addrs : cleared[a] <= 1
FairnessWitness ==
    /\ quiet
    /\ ticks = MAX_HR_ADDR * CycleLen
    /\ \A a \in Addrs : cleared[a] = 1 /\ states[a] = {}

\* C3: a tick of a second walk over an address (its frequent bit was cleared
\* before and is set again) whose attributes are all known and published
\* makes no publish call, whatever the slot.
SecondWalkSilent ==
    [][(ticks' = ticks + 1 /\ state_maj = STM_FREQ /\ CHANGE_FREQUENT \in states[addr]
          /\ cleared[addr] >= 1 /\ AllPublished(addr))
         => NumPublishes(calls') = 0]_vars

\* C4: a ready tick at cursor (a, FREQUENT, 0) for a device a whose frequent
\* bit is set and whose mode is known and not published makes exactly one
\* publish call, to <prefix>/a/mode, and marks the mode published; and the
\* frequent bit of an address is not cleared by any step other than one taken
\* with the cursor on that address, in FREQUENT, past the last frequent slot.
ModeTopicOf(a) == prefix \o << "/", DigitChars[a + 1], "/", "m", "o", "d", "e" >>
EndToEnd ==
    [][/\ (/\ Polled(calls')
           /\ model[addr].exists
           /\ CHANGE_FREQUENT \in states[addr]
           /\ state_maj = STM_FREQ
           /\ state_min = 0
           /\ MODE \in model[addr].valid \ model[addr].published)
          => /\ NumPublishes(calls') = 1
             /\ Publishes(calls')[1].s = ModeTopicOf(addr)
             /\ MODE \in model'[addr].published
       /\ \A a \in Addrs :
            (/\ CHANGE_FREQUENT \in states[a]
             /\ ~(addr = a /\ state_maj = STM_FREQ /\ state_min >= NumFreqSlots))
            => CHANGE_FREQUENT \in states'[a]]_vars
EndToEndWitness ==
    /\ addr = 1
    /\ state_maj = STM_FREQ
    /\ state_min = 1
    /\ CHANGE_FREQUENT \in states[1]
    /\ MODE \in model[1].published
    /\ NumPublishes(calls) = 1
    /\ Publishes(calls)[1].s = << "h", "r", "/", "1", "/", "m", "o", "d", "e" >>

\* C5: parse(compose(p)) = p for every valid Path p and every configured
\* prefix, timer Paths with their day, slot and timer_topic.
RoundTrip == cout.op = "roundtrip" => cout.p = cin.p

\* the same for the prefixes that are not empty and do not end in a separator
RoundTripOfPlainPrefixes ==
    (cout.op = "roundtrip" /\ prefix # << >> /\ prefix[Len(prefix)] # SEPARATOR)
      => cout.p = cin.p

\* C6: Path::parse(t) gives the same Path when the configured prefix P
\* (without leading or trailing separator) is replaced by "/"+P or by P+"/",
\* and the same Path for t and for "/"+t, for any topic string t (two invalid
\* Paths count as the same).
SamePath(p, q) == (~valid(p) /\ ~valid(q)) \/ p = q
PrefixRobust ==
    cout.op = "parse"
      => /\ SamePath(cout.p, cout.lead)
         /\ SamePath(cout.p, cout.trail)
         /\ SamePath(cout.p, cout.slash)

\* the same for a prefix P that is not empty and, in the part about "/"+t,
\* a topic string t that does not itself start with a separator
PrefixRobustOfPlainInputs ==
    /\ (cout.op = "parse" /\ prefix # << >>)
         => (cout.p = cout.lead /\ cout.p = cout.trail)
    /\ (cout.op = "parse" /\ At(cin.t, 1) # SEPARATOR)
         => SamePath(cout.p, cout.slash)

\* C7: a topic string that does not match the grammar makes Path::parse
\* return a Path with address 0.
ParseFailurePolicy ==
    (cout.op = "parse" /\ ~MatchesGrammar(prefix, cin.t)) => cout.p.addr = 0

\* the same with the looser grammar: any token starting with "timer" as the
\* timer topic, and empty day and slot tokens
ParseFailurePolicyLoose ==
    (cout.op = "parse" /\ ~MatchesLooseGrammar(prefix, cin.t)) => cout.p.addr = 0

\* C8: a set-branch TIMER message for a known device with day or slot out of
\* range invokes no setter and logs an out-of-range error; a day out of range
\* is reported as such whatever the slot, and the logged code of a day error
\* is never one that a slot error logs, and the other way round.
TimerErrArg(d, sl) ==
    LET r == callback_timer(Cur, MkPath(1, TIMER, TRUE, TIMER_MODE, d, sl), TRUE)
    IN r[2].calls[Len(r[2].calls)].n
DayErrArgs == { TimerErrArg(d, 0) : d \in TIMER_DAYS..255 }
SlotErrArgs == { TimerErrArg(0, sl) : sl \in TIMER_SLOTS_PER_DAY..255 }
OutOfRangeTimer(p) ==
    /\ valid(p) /\ p.setter /\ p.addr \in Addrs /\ model[p.addr].exists
    /\ p.topic = TIMER
    /\ (p.day >= TIMER_DAYS \/ p.slot >= TIMER_SLOTS_PER_DAY)
TimerRejected(p) ==
    /\ \A j \in 1..Len(calls) : calls[j].op # "set"
    /\ \E j \in 1..Len(calls) :
          /\ calls[j].op = "ERR"
          /\ calls[j].code = "MQTT_INVALID_TIMER_TOPIC"
          /\ calls[j].n = TimerErrArg(p.day, p.slot)
DispatcherBoundChecks ==
    \A i \in 1..Len(calls) :
      (calls[i].op = "callback" /\ OutOfRangeTimer(parse(prefix, calls[i].s)))
        => LET p == parse(prefix, calls[i].s)
           IN /\ TimerRejected(p)
              /\ p.day >= TIMER_DAYS => TimerErrArg(p.day, p.slot) \in DayErrArgs \ SlotErrArgs
              /\ p.day < TIMER_DAYS => TimerErrArg(p.day, p.slot) \in SlotErrArgs \ DayErrArgs

\* the part of C8 without the distinction of the codes
DispatcherRejects ==
    \A i \in 1..Len(calls) :
      (calls[i].op = "callback" /\ OutOfRangeTimer(parse(prefix, calls[i].s)))
        => LET p == parse(prefix, calls[i].s)
           IN /\ TimerRejected(p)
              /\ p.day >= TIMER_DAYS => TimerErrArg(p.day, p.slot) \in DayErrArgs
              /\ p.day < TIMER_DAYS => TimerErrArg(p.day, p.slot) \in SlotErrArgs

\* C9: with ticks that keep arriving and the transport connected, the cursor
\* reaches every address again and again, whatever changes are notified.
EventualRevisit == \A a \in Addrs : []<>(addr = a)

\* the same as long as no change is notified for the address without device
EventualRevisitOfDevices ==
    \/ <>(\E a \in Addrs : ~model[a].exists /\ states[a] # {})
    \/ \A a \in Addrs : []<>(addr = a)

\* C10: a tick taken while the transport is not connected and less than
\* MQTT_RECONNECT_TIME has passed since the last connect attempt makes no
\* transport call at all (no connect, no poll, no publish) and leaves
\* last_conn, the cursor, the change masks and the device model unchanged.
BackOffTickIdle ==
    [][(Ticked(calls') /\ ~connected /\ (now' - last_conn) < MQTT_RECONNECT_TIME)
         => /\ calls' = << CallUpdate(now') >>
            /\ UNCHANGED << last_conn, addr, state_maj, state_min, states, model,
                            connected >>]_vars
BackOffTickWitness ==
    /\ ~connected
    /\ calls = << CallUpdate(T0) >>
    /\ last_conn = T0
    /\ (now - last_conn) < MQTT_RECONNECT_TIME
    /\ states[addr] # {}
    /\ state_min > 0

\* C11: every connect attempt, successful or not, records its time in
\* last_conn; an attempt is made only when at least MQTT_RECONNECT_TIME has
\* passed since the time recorded before (so two consecutive attempts are
\* that far apart); and a tick whose connect fails polls nothing, publishes
\* nothing and leaves the transport disconnected.
Connects(c) == \E i \in 1..Len(c) : c[i].op = "connect"
ConnectFails(c) == \E i \in 1..Len(c) : c[i].op = "connect" /\ c[i].n = 0
UniformBackOff ==
    [][Connects(calls')
         => /\ last_conn' = now'
            /\ now' - last_conn >= MQTT_RECONNECT_TIME
            /\ ConnectFails(calls')
                 => (~Polled(calls') /\ NumPublishes(calls') = 0 /\ ~connected')]_vars
\* a second failed attempt, MQTT_RECONNECT_TIME after a first one
UniformBackOffWitness ==
    /\ ConnectFails(calls)
    /\ last_conn = 2 * MQTT_RECONNECT_TIME
    /\ now = last_conn
    /\ ~connected
    /\ states[1] # {}

\* C12: a step subscribes exactly when its connect attempt succeeded: then
\* once, to "<prefix>/set/#", right after the connect (and its log entry),
\* before the poll and any publish of the same tick, which reconnect reports
\* ready for; a tick that was connected already or whose connect failed does
\* not subscribe.
ConnectOks(c) == { i \in 1..Len(c) : c[i].op = "connect" /\ c[i].n = 1 }
Subscribes(c) == { i \in 1..Len(c) : c[i].op = "subscribe" }
SetWildcardOf(pfx) == pfx \o << "/", "s", "e", "t", "/", "#" >>
ResubscribeOnConnect ==
    /\ Cardinality(Subscribes(calls)) = Cardinality(ConnectOks(calls))
    /\ Cardinality(Subscribes(calls)) <= 1
    /\ \A i \in ConnectOks(calls) :
          /\ \E j \in Subscribes(calls) :
                /\ j = i + 2
                /\ calls[i + 1].op = "EVENT"
                /\ calls[j].s = SetWildcardOf(prefix)
                /\ \A k \in 1..j : calls[k].op \notin {"publish", "loop"}
          /\ Polled(calls)
ResubscribeOnConnectWitness ==
    /\ ConnectOks(calls) # {}
    /\ Subscribes(calls) # {}
    /\ NumPublishes(calls) = 1
    /\ now = 2 * MQTT_RECONNECT_TIME

\* C13: a step invokes a device-model setter only for an inbound message
\* whose topic parses to a valid Path of the set branch, for a device that
\* exists, with topic REQ_TMP, MODE, LOCK or TIMER; it then invokes one
\* setter, that of the topic on that device (for TIMER: of the timer
\* sub-topic, with day and slot); a step with any other message, or none,
\* invokes no setter and leaves the requested values of every device as they
\* were. (The payload is handed to the setter as received; the model carries
\* only whether the setter accepts it.)
Delivered(c) == { c[i].s : i \in { j \in 1..Len(c) : c[j].op = "callback" } }
SetCalls(c) == SelectSeq(c, LAMBDA e : e.op = "set")
Dispatchable(p) ==
    /\ valid(p)
    /\ p.setter
    /\ p.addr \in Addrs
    /\ model[p.addr].exists
    /\ p.topic \in {REQ_TMP, MODE, LOCK, TIMER}
SetterOf(p) ==
    CASE p.topic = REQ_TMP -> CallSet("temp_wanted", p.addr, 0, 0)
      [] p.topic = MODE -> CallSet("auto_mode", p.addr, 0, 0)
      [] p.topic = LOCK -> CallSet("menu_locked", p.addr, 0, 0)
      [] p.topic = TIMER /\ p.timer_topic = TIMER_MODE ->
             CallSet("timer_mode", p.addr, p.day, p.slot)
      [] OTHER -> CallSet("timer_time", p.addr, p.day, p.slot)
RequestedOf(mdl) == [a \in Addrs |-> mdl[a].requested]
DispatcherGuards ==
    [][/\ SetCalls(calls') # << >>
            => \E t \in Delivered(calls') :
                  /\ Dispatchable(parse(prefix, t))
                  /\ SetCalls(calls') = << SetterOf(parse(prefix, t)) >>
       /\ (\A t \in Delivered(calls') : ~Dispatchable(parse(prefix, t)))
            => /\ SetCalls(calls') = << >>
               /\ RequestedOf(model') = RequestedOf(model)]_vars
\* the timer mode of day 7, slot 7 of device 1 was set
DispatcherGuardsWitness ==
    /\ SetCalls(calls) = << CallSet("timer_mode", 1, 7, 7) >>
    /\ << "timer_mode", 7, 7 >> \in model[1].requested

\* C14: in every state, the tick that follows leaves the same cursor, change
\* masks and device model (published flags) whether the publish calls it
\* makes succeed or fail; when every publish fails, the tick still makes each
\* call once (at most one in FREQUENT, two with different topics in TIMER)
\* and marks the cached attribute or the timer slot it published as
\* published.
Retired(st) == << st.addr, st.state_maj, st.state_min, st.states, st.model >>
ReadyTick(ok, ok1) ==
    update(Cur, now + MQTT_RECONNECT_TIME, TRUE, NoMsg, TRUE, ok, ok1)
FailedTickMarks(st) ==
    LET pubs == Publishes(st.calls)
    IN /\ \A i \in 1..Len(pubs) : pubs[i].n = 0
       /\ Len(pubs) <= (IF state_maj = STM_FREQ THEN 1 ELSE 2)
       /\ Len(pubs) = 2 => pubs[1].s # pubs[2].s
       /\ (Len(pubs) > 0 /\ state_maj = STM_FREQ /\ state_min <= 7)
            => FreqSlotTopic[state_min + 1] \in st.model[addr].published
       /\ (Len(pubs) > 0 /\ state_maj = STM_TIMER)
            => << state_min \div 8, state_min % 8 >> \in st.model[addr].tpublished
PublishFailureRetires ==
    /\ \A ok \in BOOLEAN, ok1 \in BOOLEAN :
          Retired(ReadyTick(ok, ok1)) = Retired(ReadyTick(TRUE, TRUE))
    /\ FailedTickMarks(ReadyTick(FALSE, FALSE))
\* after the tick of timer slot (1, 2) of device 1 in which both publish
\* calls failed
PublishFailureRetiresWitness ==
    /\ addr = 1
    /\ state_maj = STM_TIMER
    /\ state_min = 11
    /\ NumPublishes(calls) = 2
    /\ \A i \in 1..2 : Publishes(calls)[i].n = 0
    /\ << 1, 2 >> \in model[1].tpublished
    /\ timer_day_2_change(1) \in states[1]

\* C15: in every state in which the change mask of the current address is
\* empty, a ready tick makes no publish call, moves the address to
\* (addr + 1) mod MAX_HR_ADDR and sets the cursor to (FREQUENT, 0), whatever
\* major and minor were; and no step ever publishes for an address whose
\* mask was empty before it.
EmptyMaskStep ==
    states[addr] = {}
      => \A ok \in BOOLEAN, ok1 \in BOOLEAN :
            LET st == ReadyTick(ok, ok1)
            IN /\ Polled(st.calls)
               /\ NumPublishes(st.calls) = 0
               /\ st.addr = (addr + 1) % MAX_HR_ADDR
               /\ st.state_maj = STM_FREQ
               /\ st.state_min = 0
               /\ st.states = states
\* the mask of device 1 ran empty in the middle of its timer walk (after slot
\* 7 of day 1) and the tick that followed went on to address 2
EmptyMaskStepWitness ==
    /\ addr = 2
    /\ state_maj = STM_FREQ
    /\ state_min = 0
    /\ calls = << CallUpdate(now), CallLoop >>
    /\ states[1] = {}
    /\ << 1, 2 >> \in model[1].tpublished

\* C16: in every state with the cursor in FREQUENT on an address that holds
\* a device and has its frequent bit set, a ready tick handles the slot
\* numbered by minor, in the order mode, lock, window, average_temp,
\* battery, requested_temp, valve_wanted, error, last_seen (then state when
\* enabled): it publishes to no topic but that of the slot, adds one to minor
\* whether it published or not, and leaves the address, the major and the
\* masks alone; with minor past the last slot it publishes nothing, clears the
\* frequent bit and goes to (same address, TIMER, 0).
FreqSlotNames ==
    << S_MODE, S_LOCK, S_WND, S_AVG_TMP, S_BAT, S_REQ_TMP, S_VALVE_WTD, S_ERR,
       S_LAST_SEEN, S_STATE >>
SlotTopicOf(a, m) == prefix \o << "/" >> \o Dec(a) \o << "/" >> \o FreqSlotNames[m + 1]
FrequentWalk ==
    (model[addr].exists /\ CHANGE_FREQUENT \in states[addr] /\ state_maj = STM_FREQ)
      => \A ok \in BOOLEAN :
            LET st == ReadyTick(ok, TRUE)
                pubs == Publishes(st.calls)
            IN /\ st.addr = addr
               /\ IF state_min < NumFreqSlots
                  THEN /\ st.state_min = state_min + 1
                       /\ st.state_maj = STM_FREQ
                       /\ st.states = states
                       /\ Len(pubs) <= 1
                       /\ \A i \in 1..Len(pubs) : pubs[i].s = SlotTopicOf(addr, state_min)
                       /\ state_min >= 8 => Len(pubs) = 1
                  ELSE /\ st.state_min = 0
                       /\ st.state_maj = STM_TIMER
                       /\ st.states = [states EXCEPT ![addr] = @ \ {CHANGE_FREQUENT}]
                       /\ Len(pubs) = 0
\* device 1 after the tick that ended its frequent walk, every cached
\* attribute published on the way
FrequentWalkWitness ==
    /\ addr = 1
    /\ state_maj = STM_TIMER
    /\ state_min = 0
    /\ CHANGE_FREQUENT \notin states[1]
    /\ calls = << CallUpdate(now), CallLoop >>
    /\ model[1].published = CachedTopics

\* what a ready tick does at (TIMER, minor) with day = minor >> 3 and
\* slot = minor & 7, as the timer walk is described
TimerWalkStep ==
    \A ok, ok1 \in BOOLEAN :
        LET st == ReadyTick(ok, ok1)
            day == state_min \div 8
            slot == state_min % 8
            bit == timer_day_2_change(day)
        IN IF day >= 8
           THEN /\ st.addr = (addr + 1) % MAX_HR_ADDR
                /\ st.state_maj = STM_FREQ
                /\ st.state_min = 0
                /\ st.states = states
                /\ NumPublishes(st.calls) = 0
           ELSE /\ st.addr = addr
                /\ st.state_maj = STM_TIMER
                /\ st.state_min = state_min + 1
                /\ IF bit \notin states[addr]
                   THEN st.states = states /\ NumPublishes(st.calls) = 0
                   ELSE st.states = IF slot = 7
                                    THEN [states EXCEPT ![addr] = @ \ {bit}]
                                    ELSE states
TimerPending == state_maj = STM_TIMER /\ states[addr] \cap CHANGE_TIMER_MASK # {}
\* C17: in every state with the cursor in TIMER on an address with some timer
\* bit pending, a ready tick reads day = minor >> 3 and slot = minor & 7 and
\* adds one to minor; with the day's bit clear it publishes nothing and
\* leaves the masks alone; with the bit set it clears that bit exactly when
\* slot = 7; with day >= 8 it moves to (next address, FREQUENT, 0) and clears
\* no timer bit.
TimerWalk == TimerPending => TimerWalkStep
\* the same for the addresses that hold a device
TimerWalkOfDevices == (TimerPending /\ model[addr].exists) => TimerWalkStep
\* a day bit raised after the walk passed slot 7 of that day is still set
\* when the walk leaves the address
TimerLateBitKept ==
    /\ addr = 1
    /\ state_maj = STM_TIMER
    /\ state_min = 64
    /\ states[1] = {timer_day_2_change(0)}
    /\ << 0, 7 >> \in model[1].tpublished

\* C18: in every state with the cursor in TIMER, a ready tick attempts either
\* no publish or two; it attempts two exactly when it handles a slot
\* (day, slot) of a device whose day bit is set and whose value is known and
\* not yet published, and then the first goes to
\* "<prefix>/<address>/timer/<day>/<slot>/mode" and the second to
\* "<prefix>/<address>/timer/<day>/<slot>/time", each with the outcome the
\* transport gave it: the time message is attempted also when the mode
\* message failed.
TimerSlotTopicOf(a, d, sl, sub) ==
    prefix \o << "/" >> \o Dec(a) \o << "/" >> \o S_TIMER \o << "/" >> \o Dec(d)
           \o << "/" >> \o Dec(sl) \o << "/" >> \o sub
TimerPair ==
    state_maj = STM_TIMER
      => \A ok, ok1 \in BOOLEAN :
            LET pubs == Publishes(ReadyTick(ok, ok1).calls)
                day == state_min \div 8
                slot == state_min % 8
                due == /\ model[addr].exists
                       /\ day < TIMER_DAYS
                       /\ timer_day_2_change(day) \in states[addr]
                       /\ << day, slot >> \in model[addr].tvalid
                       /\ << day, slot >> \notin model[addr].tpublished
            IN /\ Len(pubs) \in {0, 2}
               /\ Len(pubs) = 2 <=> due
               /\ due => /\ pubs[1] = CallPublish(TimerSlotTopicOf(addr, day, slot, S_TIMER_MODE), ok)
                          /\ pubs[2] = CallPublish(TimerSlotTopicOf(addr, day, slot, S_TIMER_TIME), ok1)
\* a timer tick of device 1, day 7, slot 0: the mode message refused, the
\* time message taken
TimerPairWitness ==
    /\ addr = 1
    /\ state_maj = STM_TIMER
    /\ state_min = 57
    /\ Publishes(calls) =
          << CallPublish(TimerSlotTopicOf(1, 7, 0, S_TIMER_MODE), FALSE),
             CallPublish(TimerSlotTopicOf(1, 7, 0, S_TIMER_TIME), TRUE) >>

\* a message reaches dispatch: its Path is valid, of the set branch, and names
\* a device
ReachesDispatch(p) ==
    /\ valid(p)
    /\ p.setter
    /\ p.addr \in Addrs
    /\ model[p.addr].exists
SupportedTopics == {REQ_TMP, MODE, LOCK, TIMER}
EventsOf(c, code) == SelectSeq(c, LAMBDA e : e.op = "EVENT" /\ e.code = code)
ErrsOf(c, code) == SelectSeq(c, LAMBDA e : e.op = "ERR" /\ e.code = code)
\* a ready tick whose poll delivers msg, the setter answering sok
DeliveryTick(msg, sok) ==
    update(Cur, now + MQTT_RECONNECT_TIME, TRUE, msg, sok, TRUE, TRUE)
\* the tick that delivered a message of Topics that reaches dispatch logged
\* the MQTT_CALLBACK event with the Path's as_uint(), once
CallbackEventLogged(Topics) ==
    \A t \in Delivered(calls) :
        LET p == parse(prefix, t)
        IN (ReachesDispatch(p) /\ p.topic \in Topics)
             => EventsOf(calls, "MQTT_CALLBACK") = << LogEVENT("MQTT_CALLBACK", as_uint(p)) >>
\* MQTT_INVALID_TOPIC_VALUE is logged exactly when a setter was called and
\* answered failure
ValueErrIffSetterFailed ==
    \A msg \in DispatchMsgs \ {NoMsg}, sok \in BOOLEAN :
        LET c == DeliveryTick(msg, sok).calls
            errs == ErrsOf(c, "MQTT_INVALID_TOPIC_VALUE")
        IN /\ errs # << >> <=> (SetCalls(c) # << >> /\ ~sok)
           /\ errs # << >>
                => errs = << LogERR("MQTT_INVALID_TOPIC_VALUE", as_uint(parse(prefix, msg))) >>
\* C19: every inbound message that reaches dispatch (valid Path of the set
\* branch, known device) logs the MQTT_CALLBACK event with the Path's
\* as_uint(), whatever its topic and whether the setter took the value or
\* not; MQTT_INVALID_TOPIC_VALUE is logged exactly when a setter was called
\* and answered failure.
DispatchEvents ==
    /\ CallbackEventLogged(NonTimerTopics \cup {TIMER})
    /\ ValueErrIffSetterFailed
\* the same for the topics the dispatcher has a case for
DispatchEventsOfSupportedTopics ==
    /\ CallbackEventLogged(SupportedTopics)
    /\ ValueErrIffSetterFailed

\* the ranges of the fields of a Path
InRange(p) ==
    /\ p.addr \in 1..31
    /\ IF p.topic = TIMER
       THEN /\ p.day < 8
            /\ p.slot < 8
            /\ p.timer_topic \in {TIMER_TIME, TIMER_MODE}
       ELSE /\ p.timer_topic = TIMER_NONE
            /\ p.day = 0
            /\ p.slot = 0
Parsed == cout.op \in {"parse", "roundtrip"}
\* C20: every Path that Path::parse returned and that is valid() has its
\* address in 1..31; with topic TIMER it has day < 8, slot < 8 and timer_topic
\* TIME or MODE; with any other topic it has timer_topic NONE, day 0 and
\* slot 0.
PathRange == (Parsed /\ valid(cout.p)) => InRange(cout.p)
\* the parts of it that hold of every parsed Path: the timer sub-topic is
\* resolved exactly for TIMER, and day and slot are 0 for the other topics
PathShape ==
    (Parsed /\ valid(cout.p))
      => IF cout.p.topic = TIMER
         THEN cout.p.timer_topic \in {TIMER_TIME, TIMER_MODE}
         ELSE cout.p.timer_topic = TIMER_NONE /\ cout.p.day = 0 /\ cout.p.slot = 0
\* a composed topic parses to a Path within the ranges
PathRangeOfComposed == (cout.op = "roundtrip" /\ valid(cout.p)) => InRange(cout.p)

\* the value of a decimal numeral
NumeralValue(tok) ==
    LET RECURSIVE val(_, _)
        val(i, acc) == IF i > Len(tok) THEN acc ELSE val(i + 1, acc * 10 + DigitVal(tok[i]))
    IN val(1, 0)
\* the tokens of topic t after the prefix and the set literal: the address
\* numeral, the topic name and, of a timer topic, day, slot and sub-topic
SuffixTokens(pfx, t) ==
    LET PT == Split(StripTrail(StripLead(pfx)))
        TT == Split(StripLead(t))
        R0 == SubSeq(TT, Len(PT) + 1, Len(TT))
    IN IF R0[1] = S_SET_MODE THEN Tail(R0) ELSE R0
\* the Path parsed from a topic of the grammar carries the values of the
\* topic's numerals, for the numerals whose value Fits
NumeralsKept(Fits(_)) ==
    (cout.op = "parse" /\ MatchesGrammar(prefix, cin.t))
      => LET R == SuffixTokens(prefix, cin.t)
             a == NumeralValue(R[1])
         IN /\ Fits(a) => cout.p.addr = a
            /\ (Len(R) = 5 /\ a # 0 /\ Fits(a) /\ Fits(NumeralValue(R[3])))
                 => cout.p.day = NumeralValue(R[3])
            /\ (Len(R) = 5 /\ a # 0 /\ Fits(a) /\ Fits(NumeralValue(R[4])))
                 => cout.p.slot = NumeralValue(R[4])
AnyValue(v) == TRUE
FitsByte(v) == v < 256
\* C21: the Path that Path::parse returns for a topic of the grammar has the
\* value of the topic's address numeral as its address, whatever the value
\* (a numeral above 255 is not wrapped onto another address), and of a timer
\* topic the values of the day and slot numerals as day and slot.
NumeralParsing == NumeralsKept(AnyValue)
\* the same for the numerals that fit 8 bits
NumeralParsingOfBytes == NumeralsKept(FitsByte)

\* device a of st has something known and unpublished that change bit covers:
\* a cached attribute for the frequent bit, a slot of the day for a day bit
Unannounced(st, a, bit) ==
    IF bit = CHANGE_FREQUENT
    THEN st.model[a].valid \ st.model[a].published # {}
    ELSE \E d \in Days, sl \in Slots :
            /\ bit = timer_day_2_change(d)
            /\ << d, sl >> \in st.model[a].tvalid \ st.model[a].tpublished
\* C22: a change raised for a device at any point between ticks, the middle
\* of the walk of the same address included, is not lost: in every state, a
\* ready tick clears no change bit of a device that after the tick still has
\* a known and unpublished attribute (or timer slot) covered by that bit.
NoLostChange ==
    \A ok, ok1 \in BOOLEAN :
        LET st == ReadyTick(ok, ok1)
        IN \A a \in Addrs :
              \A bit \in states[a] \ st.states[a] : ~Unannounced(st, a, bit)

\* the masks of the addresses other than a are the same in m and n
SameElsewhere(m, n, a) == \A b \in Addrs \ {a} : m[b] = n[b]
\* the one bit a tick at the cursor (maj, min) may clear
WalkedBit(maj, min) ==
    IF maj = STM_FREQ THEN {CHANGE_FREQUENT}
    ELSE IF maj = STM_TIMER THEN {timer_day_2_change(min \div 8)}
    ELSE {}
CursorOf(st) == << st.addr, st.state_maj, st.state_min >>
\* callback() called with a topic that parses to p changes neither masks nor
\* cursor
CallbackFrame(p) ==
    \A sok \in BOOLEAN :
        LET st == callback_path(Cur, p, sok)
        IN st.states = states /\ CursorOf(st) = Cursor
\* C23: a tick changes the mask of no address but the current one; of the
\* current one it sets no bit and clears at most the frequent bit in a
\* frequent-walk tick and at most the bit of the visited day in a timer-walk
\* tick. A step that is not a tick (the change callback, the loss of the
\* connection) clears no bit, changes the mask of at most one address and
\* leaves the cursor alone. reconnect and the inbound callback() change
\* neither masks nor cursor.
MaskFrame ==
    [][/\ Ticked(calls')
            => /\ SameElsewhere(states', states, addr)
               /\ states'[addr] \subseteq states[addr]
               /\ (states[addr] \ states'[addr]) \subseteq WalkedBit(state_maj, state_min)
               /\ Cardinality(states[addr] \ states'[addr]) <= 1
               /\ \A cok \in BOOLEAN :
                     LET r == reconnect(Cur, now', cok)[2]
                     IN r.states = states /\ CursorOf(r) = Cursor
               /\ \A t \in Delivered(calls') : CallbackFrame(parse(prefix, t))
       /\ ~Ticked(calls')
            => /\ \A a \in Addrs : states[a] \subseteq states'[a]
               /\ \E a \in Addrs : SameElsewhere(states', states, a)
               /\ Cursor' = Cursor]_vars
\* the tick on slot 7 of day 1 of device 1, which delivered an inbound
\* message, cleared the bit of day 1 and left the frequent bit that was
\* raised during the timer walk
MaskFrameWitness ==
    /\ addr = 1
    /\ state_maj = STM_TIMER
    /\ state_min = 16
    /\ states[1] = {CHANGE_FREQUENT}
    /\ Delivered(calls) # {}
    /\ << 1, 7 >> \in model[1].tpublished

\* the ranges of the cursor
CursorInRange ==
    /\ addr \in 0..(MAX_HR_ADDR - 1)
    /\ state_maj \in {STM_FREQ, STM_TIMER}
    /\ state_maj = STM_FREQ => state_min \in 0..NumFreqSlots
    /\ state_maj = STM_TIMER => state_min \in 0..(TIMER_DAYS * TIMER_SLOTS_PER_DAY)
\* C24: at the start and after every step (tick with or without inbound
\* message, change callback, loss of the connection) the address is in
\* 0..MAX_HR_ADDR-1, major is FREQUENT or TIMER (STM_NEXT_CLIENT is never
\* stored), minor is at most the number of frequent slots in FREQUENT and at
\* most 64 in TIMER; and every step that changes the address takes it to
\* (address + 1) mod MAX_HR_ADDR with the cursor at (FREQUENT, 0).
CursorInvariant ==
    [][/\ CursorInRange
       /\ CursorInRange'
       /\ addr' # addr
            => /\ addr' = (addr + 1) % MAX_HR_ADDR
               /\ state_maj' = STM_FREQ
               /\ state_min' = 0]_vars
\* the timer walk of device 1 has passed the last slot of the last day: the
\* tick just made took minor to 64
CursorInvariantWitness ==
    /\ addr = 1
    /\ state_maj = STM_TIMER
    /\ state_min = TIMER_DAYS * TIMER_SLOTS_PER_DAY
    /\ Ticked(calls)
====
